---- MODULE Spec2Model ----
(***************************************************************************)
(* Model of the Conan recipes of bitwizeshift/result:                      *)
(*   conanfile.py                      class ResultConan                   *)
(*   .conan/test_package/conanfile.py  class ExpectedConanTest             *)
(*                                                                         *)
(* The recipes are driven by the package manager, which calls their        *)
(* methods.  Every call into the build-system helper (cmake.configure,     *)
(* cmake.build, cmake.install) is an external step: it either returns or   *)
(* raises, and a raised exception leaves the calling method at once        *)
(* because neither recipe contains a try statement.                        *)
(***************************************************************************)
EXTENDS Integers, Sequences, FiniteSets, TLC

VARIABLES
  conanfile,       \* class attributes of ResultConan
  test_conanfile,  \* class attributes of ExpectedConanTest
  pc,              \* position of each running method: a source line, "returned" or "raised"
  cmake,           \* the local CMake helper of each method
  invoked,         \* external steps each method has invoked, in order
  raised,          \* errors the external steps have raised, in order
  result,          \* what each method reported to the package manager
  configure_args,  \* the definitions the configure step was invoked with
  installed,       \* TRUE once cmake.install() has returned: the installed artifact exists
  copies,          \* the self.copy() calls performed by ResultConan.package
  called,          \* the body-less methods of the test package already called
  builds,          \* the settings of two builds of the package
  info,            \* self.info of each of the two builds
  id_applied       \* the builds on which package_id() has run

vars == <<conanfile, test_conanfile, pc, cmake, invoked, raised, result,
          configure_args, installed, copies, called, builds, info, id_applied>>

-----------------------------------------------------------------------------
(* Values the environment supplies.                                        *)

\* What an external step can raise (the helper reports a failed command as
\* a ConanException; a missing tool surfaces as an OSError).
Errors == {"ConanException", "OSError"}

SettingNames == {"os", "compiler", "arch", "build_type"}

SettingValues ==
  [os         |-> {"Linux", "Windows"},
   compiler   |-> {"gcc", "clang"},
   arch       |-> {"x86", "x86_64"},
   build_type |-> {"Debug", "Release"}]

\* The settings of one build, as the profile gives them.
Profiles ==
  [os : SettingValues.os, compiler : SettingValues.compiler,
   arch : SettingValues.arch, build_type : SettingValues.build_type]

\* The two builds that are compared.
Builds == {1, 2}

\* The settings the package manager can have recorded in self.info before
\* it calls package_id(): none of them, or all of them.
RecordedSettings == {{}, SettingNames}

-----------------------------------------------------------------------------
(* The recipes' class attributes.                                          *)

\* ResultConan declares no option: options = {}.  (exports and
\* build_requires are parenthesised strings, not tuples.)
NoOptions == [o \in {} |-> ""]

\* ResultConan with an empty license field.
ResultConan_no_license ==
  [name            |-> "Result",
   version         |-> "0.0.1",
   description     |-> " A lightweight C++11-compatible error-handling mechanism",
   url             |-> "https://github.com/bitwizeshift/Result",
   author          |-> "Matthew Rodusek <matthew.rodusek@gmail.com>",
   license         |-> "",
   exports         |-> "LICENSE",
   exports_sources |-> <<"CMakeLists.txt", "cmake/*", "include/*", "test/*", "LICENSE">>,
   options         |-> NoOptions,
   default_options |-> NoOptions,
   generators      |-> "cmake",
   build_requires  |-> "Catch2/2.7.1@catchorg/stable"]

ResultConan ==
  [name            |-> "Result",
   version         |-> "0.0.1",
   description     |-> " A lightweight C++11-compatible error-handling mechanism",
   url             |-> "https://github.com/bitwizeshift/Result",
   author          |-> "Matthew Rodusek <matthew.rodusek@gmail.com>",
   license         |-> "MIT",
   exports         |-> "LICENSE",
   exports_sources |-> <<"CMakeLists.txt", "cmake/*", "include/*", "test/*", "LICENSE">>,
   options         |-> NoOptions,
   default_options |-> NoOptions,
   generators      |-> "cmake",
   build_requires  |-> "Catch2/2.7.1@catchorg/stable"]

ExpectedConanTest ==
  [settings   |-> <<"os", "compiler", "arch", "build_type">>,
   generators |-> "cmake"]

-----------------------------------------------------------------------------
(* The running methods.                                                    *)

Package   == "ResultConan.package"
TestBuild == "ExpectedConanTest.build"
Methods   == {Package, TestBuild}

\* The CMake helper before CMake(self) has run, and right after.
NoCMake  == [created |-> FALSE, definitions |-> {}]
CMake    == [created |-> TRUE,  definitions |-> {}]

\* cmake.definitions[key] = value on a dictionary kept as a set of pairs.
SetDefinition(definitions, key, value) ==
  {d \in definitions : d[1] # key} \cup {<<key, value>>}

\* Invoke with the call wrapped in try/except: a raised error is dropped and
\* the method goes on.
Invoke_swallow(m, step, here, next) ==
  /\ pc[m] = here
  /\ invoked' = [invoked EXCEPT ![m] = Append(@, step)]
  /\ pc' = [pc EXCEPT ![m] = next]
  /\ result' = IF next = "returned" THEN [result EXCEPT ![m] = "returned"]
                                    ELSE result
  /\ \/ UNCHANGED raised
     \/ \E e \in Errors :
          raised' = [raised EXCEPT ![m] = Append(@, [step |-> step, error |-> e])]

\* Invoke with every error re-raised as a ConanException.
Invoke_wrap(m, step, here, next) ==
  /\ pc[m] = here
  /\ invoked' = [invoked EXCEPT ![m] = Append(@, step)]
  /\ \/ /\ pc' = [pc EXCEPT ![m] = next]
        /\ result' = IF next = "returned" THEN [result EXCEPT ![m] = "returned"]
                                          ELSE result
        /\ UNCHANGED raised
     \/ \E e \in Errors :
          /\ pc' = [pc EXCEPT ![m] = "raised"]
          /\ raised' = [raised EXCEPT ![m] = Append(@, [step |-> step, error |-> e])]
          /\ result' = [result EXCEPT ![m] = "ConanException"]

\* One call of an external step at line `here` of method m.  The step is
\* recorded as invoked; when it returns the method goes on at line `next`,
\* when it raises the exception leaves the method and is what the method
\* reports.
Invoke(m, step, here, next) ==
  /\ pc[m] = here
  /\ invoked' = [invoked EXCEPT ![m] = Append(@, step)]
  /\ \/ /\ pc' = [pc EXCEPT ![m] = next]
        /\ result' = IF next = "returned" THEN [result EXCEPT ![m] = "returned"]
                                          ELSE result
        /\ UNCHANGED raised
     \/ \E e \in Errors :
          /\ pc' = [pc EXCEPT ![m] = "raised"]
          /\ raised' = [raised EXCEPT ![m] = Append(@, [step |-> step, error |-> e])]
          /\ result' = [result EXCEPT ![m] = e]

-----------------------------------------------------------------------------
(* ResultConan.package                                                     *)

\* cmake = CMake(self)
package_CMake ==
  /\ pc[Package] = "l32"
  /\ cmake' = [cmake EXCEPT ![Package] = CMake]
  /\ pc' = [pc EXCEPT ![Package] = "l33"]
  /\ UNCHANGED <<conanfile, test_conanfile, invoked, raised, result,
                 configure_args, installed, copies, called, builds, info,
                 id_applied>>

\* The flag written to self.options instead of cmake.definitions.
package_definitions_on_self ==
  /\ pc[Package] = "l33"
  /\ conanfile' = [conanfile EXCEPT !.options = [o \in {"RESULT_COMPILE_UNIT_TESTS"} |-> "ON"]]
  /\ pc' = [pc EXCEPT ![Package] = "l34"]
  /\ UNCHANGED <<test_conanfile, cmake, invoked, raised, result,
                 configure_args, installed, copies, called, builds, info,
                 id_applied>>

\* cmake.definitions["RESULT_COMPILE_UNIT_TESTS"] = "ON"
package_definitions ==
  /\ pc[Package] = "l33"
  /\ cmake' = [cmake EXCEPT ![Package].definitions =
                 SetDefinition(@, "RESULT_COMPILE_UNIT_TESTS", "ON")]
  /\ pc' = [pc EXCEPT ![Package] = "l34"]
  /\ UNCHANGED <<conanfile, test_conanfile, invoked, raised, result,
                 configure_args, installed, copies, called, builds, info,
                 id_applied>>

\* The build started where the configure step belongs.
package_configure_swapped ==
  /\ Invoke(Package, "build", "l34", "l37")
  /\ configure_args' = [configure_args EXCEPT ![Package] = cmake[Package].definitions]
  /\ UNCHANGED <<conanfile, test_conanfile, cmake, installed, copies, called,
                 builds, info, id_applied>>

\* cmake.configure()
package_configure ==
  /\ Invoke(Package, "configure", "l34", "l37")
  /\ configure_args' = [configure_args EXCEPT ![Package] = cmake[Package].definitions]
  /\ UNCHANGED <<conanfile, test_conanfile, cmake, installed, copies, called,
                 builds, info, id_applied>>

\* cmake.build()
package_build ==
  /\ Invoke(Package, "build", "l37", "l38")
  /\ UNCHANGED <<conanfile, test_conanfile, cmake, configure_args, installed,
                 copies, called, builds, info, id_applied>>

\* The test target built only when some switch asks for it.
package_test_optional ==
  /\ \/ Invoke(Package, "test", "l38", "l40")
     \/ /\ pc[Package] = "l38"
        /\ pc' = [pc EXCEPT ![Package] = "l40"]
        /\ UNCHANGED <<invoked, raised, result>>
  /\ UNCHANGED <<conanfile, test_conanfile, cmake, configure_args, installed,
                 copies, called, builds, info, id_applied>>

\* cmake.build(target="test")
package_test ==
  /\ Invoke(Package, "test", "l38", "l40")
  /\ UNCHANGED <<conanfile, test_conanfile, cmake, configure_args, installed,
                 copies, called, builds, info, id_applied>>

\* cmake.install() with its error dropped.
package_install_swallow ==
  /\ Invoke_swallow(Package, "install", "l40", "l42")
  /\ installed' = (raised'[Package] = raised[Package])
  /\ UNCHANGED <<conanfile, test_conanfile, cmake, configure_args, copies,
                 called, builds, info, id_applied>>

\* cmake.install()
package_install ==
  /\ Invoke(Package, "install", "l40", "l42")
  /\ installed' = (pc'[Package] = "l42")
  /\ UNCHANGED <<conanfile, test_conanfile, cmake, configure_args, copies,
                 called, builds, info, id_applied>>

\* The copy performed, but the method never returns.
package_copy_hang ==
  /\ pc[Package] = "l42"
  /\ copies' = <<[pattern |-> "LICENSE", dst |-> "licenses"]>>
  /\ UNCHANGED <<conanfile, test_conanfile, pc, result, cmake, invoked, raised,
                 configure_args, installed, called, builds, info, id_applied>>

\* self.copy(pattern="LICENSE", dst="licenses"), then the method returns.
package_copy ==
  /\ pc[Package] = "l42"
  /\ copies' = Append(copies, [pattern |-> "LICENSE", dst |-> "licenses"])
  /\ pc' = [pc EXCEPT ![Package] = "returned"]
  /\ result' = [result EXCEPT ![Package] = "returned"]
  /\ UNCHANGED <<conanfile, test_conanfile, cmake, invoked, raised,
                 configure_args, installed, called, builds, info, id_applied>>

package ==
  \/ package_CMake
  \/ package_definitions
  \/ package_configure
  \/ package_build
  \/ package_test
  \/ package_install
  \/ package_copy

-----------------------------------------------------------------------------
(* ResultConan.package_id                                                  *)

\* self.info.header_only(), a call into the package manager's ConanInfo:
\* the identity no longer records settings, options or requirements.
header_only(i) ==
  [settings |-> [s \in {} |-> ""], options |-> NoOptions, requires |-> {}]

\* package_id() with an empty body.
package_id_pass(b) ==
  /\ b \notin id_applied
  /\ id_applied' = id_applied \cup {b}
  /\ UNCHANGED <<conanfile, test_conanfile, pc, cmake, invoked, raised, result,
                 configure_args, installed, copies, called, builds, info>>

\* package_id() of build b.
package_id(b) ==
  /\ b \notin id_applied
  /\ info' = [info EXCEPT ![b] = header_only(@)]
  /\ id_applied' = id_applied \cup {b}
  /\ UNCHANGED <<conanfile, test_conanfile, pc, cmake, invoked, raised, result,
                 configure_args, installed, copies, called, builds>>

-----------------------------------------------------------------------------
(* ExpectedConanTest                                                       *)

\* cmake = CMake(self)
build_CMake ==
  /\ pc[TestBuild] = "l9"
  /\ cmake' = [cmake EXCEPT ![TestBuild] = CMake]
  /\ pc' = [pc EXCEPT ![TestBuild] = "l10"]
  /\ UNCHANGED <<conanfile, test_conanfile, invoked, raised, result,
                 configure_args, installed, copies, called, builds, info,
                 id_applied>>

\* cmake.configure()
build_configure ==
  /\ Invoke(TestBuild, "configure", "l10", "l11")
  /\ configure_args' = [configure_args EXCEPT ![TestBuild] = cmake[TestBuild].definitions]
  /\ UNCHANGED <<conanfile, test_conanfile, cmake, installed, copies, called,
                 builds, info, id_applied>>

\* cmake.build(), then the method returns.
build_build ==
  /\ Invoke(TestBuild, "build", "l11", "returned")
  /\ UNCHANGED <<conanfile, test_conanfile, cmake, configure_args, installed,
                 copies, called, builds, info, id_applied>>

build ==
  \/ build_CMake
  \/ build_configure
  \/ build_build

\* def imports(self): pass
imports ==
  /\ "imports" \notin called
  /\ called' = called \cup {"imports"}
  /\ UNCHANGED <<conanfile, test_conanfile, pc, cmake, invoked, raised, result,
                 configure_args, installed, copies, builds, info, id_applied>>

\* def test(self): pass
test ==
  /\ "test" \notin called
  /\ called' = called \cup {"test"}
  /\ UNCHANGED <<conanfile, test_conanfile, pc, cmake, invoked, raised, result,
                 configure_args, installed, copies, builds, info, id_applied>>

-----------------------------------------------------------------------------
(* The specification.                                                      *)

\* The settings of build b that the package manager recorded in self.info.
InitialInfo(profile, recorded) ==
  [settings |-> [s \in recorded |-> profile[s]],
   options  |-> ResultConan.options,
   requires |-> {}]

Init ==
  /\ conanfile = ResultConan
  /\ test_conanfile = ExpectedConanTest
  /\ pc = [m \in Methods |-> IF m = Package THEN "l32" ELSE "l9"]
  /\ cmake = [m \in Methods |-> NoCMake]
  /\ invoked = [m \in Methods |-> <<>>]
  /\ raised = [m \in Methods |-> <<>>]
  /\ result = [m \in Methods |-> "running"]
  /\ configure_args = [m \in Methods |-> {}]
  /\ installed = FALSE
  /\ copies = <<>>
  /\ called = {}
  /\ builds \in [Builds -> Profiles]
  /\ \E recorded \in RecordedSettings :
       info = [b \in Builds |-> InitialInfo(builds[b], recorded)]
  /\ id_applied = {}

Next ==
  \/ package
  \/ \E b \in Builds : package_id(b)
  \/ build
  \/ imports
  \/ test

Spec == Init /\ [][Next]_vars

\* package() and build() are synchronous: once called they run to their end.
FairSpec == Spec /\ WF_vars(package) /\ WF_vars(build)

-----------------------------------------------------------------------------
(* Properties.                                                             *)

Order == <<"configure", "build", "test", "install">>

IsPrefix(s, t) ==
  /\ Len(s) <= Len(t)
  /\ \A i \in 1..Len(s) : s[i] = t[i]

\* The step s of method m has raised.
Failed(m, s) == \E j \in 1..Len(raised[m]) : raised[m][j].step = s

\* The step s of method m was invoked and returned.
Succeeded(m, s) ==
  /\ \E i \in 1..Len(invoked[m]) : invoked[m][i] = s
  /\ ~Failed(m, s)

Count(seq, s) == Cardinality({i \in 1..Len(seq) : seq[i] = s})

Terminal == pc[Package] \in {"returned", "raised"}

\* C1: package() invokes configure, build, test, install in that order, a
\* step only after all its predecessors were invoked and succeeded; the test
\* package's build() invokes configure before build.
C1_FixedOrder ==
  /\ IsPrefix(invoked[Package], Order)
  /\ \A i \in 1..Len(invoked[Package]) :
       \A j \in 1..(i - 1) : ~Failed(Package, invoked[Package][j])
  /\ IsPrefix(invoked[TestBuild], <<"configure", "build">>)

C1_Witness ==
  /\ invoked[Package] = Order
  /\ invoked[TestBuild] = <<"configure", "build">>

\* C2: when a step of package() fails no later step is invoked; after a
\* failing configure neither build nor install is invoked, after a failing
\* build no install, and no installed artifact exists.
C2_ShortCircuit ==
  /\ \A i \in 1..Len(invoked[Package]) :
       Failed(Package, invoked[Package][i]) => i = Len(invoked[Package])
  /\ Failed(Package, "configure") =>
       /\ Count(invoked[Package], "build") = 0
       /\ Count(invoked[Package], "install") = 0
  /\ Failed(Package, "build") => Count(invoked[Package], "install") = 0
  /\ (\E s \in {"configure", "build", "test"} : Failed(Package, s)) =>
       ~installed

C2_Witness ==
  /\ pc[Package] = "raised"
  /\ raised[Package] = <<[step |-> "build", error |-> "ConanException"]>>
  /\ invoked[Package] = <<"configure", "build">>

\* C3: each step of package() is invoked at most once, a failed step is not
\* invoked again, and when a step fails package() reports exactly the error
\* that step raised.
C3_ErrorUnmodified ==
  /\ \A s \in {"configure", "build", "test", "install"} :
       Count(invoked[Package], s) <= 1
  /\ Len(raised[Package]) <= 1
  /\ raised[Package] # <<>> =>
       /\ pc[Package] = "raised"
       /\ result[Package] = raised[Package][1].error
  /\ pc[Package] = "raised" => raised[Package] # <<>>
  /\ result[Package] = "returned" => raised[Package] = <<>>

C3_Witness ==
  /\ pc[Package] = "raised"
  /\ raised[Package] = <<[step |-> "test", error |-> "OSError"]>>
  /\ result[Package] = "OSError"

RequiredFields == {"name", "version", "url", "license"}

\* Every required field of the recipe d is declared and is a non-empty string.
WellFormed(d) ==
  \A f \in RequiredFields :
    /\ f \in DOMAIN d
    /\ d[f] \in STRING
    /\ d[f] # ""

\* C5 as stated: both recipes declare non-empty name, version, url, license.
C5_AllDescriptors ==
  /\ WellFormed(conanfile)
  /\ WellFormed(test_conanfile)

\* C5: the ResultConan recipe declares non-empty name, version, url and
\* license; the test-package recipe declares none of the four.
C5_ResultDescriptor ==
  /\ WellFormed(conanfile)
  /\ DOMAIN test_conanfile \cap RequiredFields = {}

C5_Witness ==
  /\ conanfile.name = "Result"
  /\ conanfile.version = "0.0.1"
  /\ DOMAIN test_conanfile = {"settings", "generators"}
  /\ result[Package] = "returned"
  /\ result[TestBuild] = "returned"

\* C7: no step of package(), package_id(), build(), imports() or test()
\* changes a class attribute of either recipe.
C7_ReadOnly ==
  [][conanfile' = conanfile /\ test_conanfile' = test_conanfile]_vars

C7_Witness ==
  /\ pc[Package] = "raised"
  /\ pc[TestBuild] = "returned"
  /\ id_applied = Builds
  /\ called = {"imports", "test"}
  /\ conanfile = ResultConan
  /\ test_conanfile = ExpectedConanTest

AllSucceeded ==
  /\ pc[Package] = "returned"
  /\ invoked[Package] = Order
  /\ raised[Package] = <<>>

AbortedAtFirstFailure ==
  /\ pc[Package] = "raised"
  /\ Len(raised[Package]) = 1
  /\ invoked[Package] # <<>>
  /\ raised[Package][1].step = invoked[Package][Len(invoked[Package])]

\* C8: package() eventually reaches a terminal state, a terminal state is
\* either "all steps succeeded" or "aborted at the first failed step", and
\* once it is reached package() stays there and invokes no further step.
C8_Terminates ==
  /\ <>Terminal
  /\ [](Terminal => (AllSucceeded \/ AbortedAtFirstFailure))
  /\ [][Terminal => (pc'[Package] = pc[Package] /\ invoked'[Package] = invoked[Package])]_vars

C8_Witness ==
  /\ AllSucceeded
  /\ installed
  /\ copies # <<>>
  /\ pc[TestBuild] = "raised"

\* C9: configure is invoked with RESULT_COMPILE_UNIT_TESTS = ON, the recipe
\* has no option or setting, every finished run in which configure and build
\* succeeded has invoked the test step, and install is invoked only after the
\* test step was invoked and succeeded.
C9_TestsNotSkippable ==
  /\ invoked[Package] # <<>> =>
       <<"RESULT_COMPILE_UNIT_TESTS", "ON">> \in configure_args[Package]
  /\ DOMAIN conanfile.options = {}
  /\ "settings" \notin DOMAIN conanfile
  /\ (Terminal /\ Succeeded(Package, "configure") /\ Succeeded(Package, "build")) =>
       Count(invoked[Package], "test") = 1
  /\ Count(invoked[Package], "install") > 0 => Succeeded(Package, "test")

C9_Witness ==
  /\ pc[Package] = "l42"
  /\ Succeeded(Package, "test")
  /\ Succeeded(Package, "install")
  /\ configure_args[Package] = {<<"RESULT_COMPILE_UNIT_TESTS", "ON">>}

\* C10: LICENSE is copied to "licenses" once, as the last action of
\* package(), after configure, build, test and install all succeeded; a run
\* in which a step failed has copied nothing.
C10_LicenseLast ==
  /\ copies # <<>> =>
       /\ copies = <<[pattern |-> "LICENSE", dst |-> "licenses"]>>
       /\ \A s \in {"configure", "build", "test", "install"} : Succeeded(Package, s)
       /\ installed
       /\ pc[Package] = "returned"
  /\ raised[Package] # <<>> => copies = <<>>

C10_Witness ==
  /\ copies = <<[pattern |-> "LICENSE", dst |-> "licenses"]>>
  /\ installed
  /\ result[Package] = "returned"
  /\ pc[TestBuild] = "l9"

====
